---------------------------- MODULE Spec2Model ----------------------------
(***************************************************************************)
(* perthensis/debounce.py: TimerDebounce, DebouncedPin, DebouncedRotary;    *)
(* perthensis/scheduler.py: Scheduler.                                     *)
(*                                                                         *)
(* Two execution contexts.  Interrupt context: the pin edge handler, the   *)
(* periodic timer handler and the rotary edge handler, each one atomic     *)
(* step.  Task context: the functions handed to micropython.schedule, run  *)
(* one at a time from a bounded FIFO queue; an interrupt may fire between  *)
(* any two instructions of a scheduled function, except between            *)
(* disable_irq() and enable_irq().  The scan _settle_checker is therefore  *)
(* split at every access to a field an interrupt handler also writes.      *)
(***************************************************************************)
EXTENDS Integers, Sequences, FiniteSets, TLC

\* ------------------------------------------------------------- bounds
MaxPins == 2
MaxThreshold == 2
QueueDepth == 2
MaxEdges == 4
MaxTasks == 3
MaxSteps == 2

\* ---------------------------------------------------- program constants
RUNNING_NONE == 0
RUNNING_SOME == 1
RUNNING_CHECKING == 2
DefaultThreshold == 20

PinIds == 1..MaxPins
Thresholds == 1..MaxThreshold
Levels == {0, 1}

\* Python's None, and an int or bool held in a field that may be None.
None == <<>>
Some(n) == <<n>>
Get(x) == x[1]

VARIABLES
    pins,          \* TimerDebounce._pins: pin id -> DebouncedPin fields
    running_jobs,  \* TimerDebounce._running_jobs
    timer,         \* TRUE while the periodic machine.Timer is initialised
    queue,         \* micropython.schedule's bounded queue of deferred calls
    pc,            \* position of the task context inside a deferred call
    cur,           \* the pin the scan's loop body is working on (0: none)
    todo,          \* pins the scan's loop has not visited yet
    acc,           \* the value loaded by "pin._settle_wait -= 1"
    raised,        \* exceptions that escaped to a caller or out of an ISR
    rotary,        \* DebouncedRotary fields: _state, _invert, _reverse
    mode,          \* which environment drives the program (set by Init)
    script,        \* scenario: the edges still to come, <<tick, level>>
    clock,         \* scenario: number of timer ticks so far
    enc,           \* the rotary encoder's contacts and what was seen of them
    sched,         \* Scheduler: the event loop and its tasks
    hist           \* observations per pin, for the properties only

vars == <<pins, running_jobs, timer, queue, pc, cur, todo, acc, raised,
          rotary, mode, script, clock, enc, sched, hist>>

\* ------------------------------------------------------- deferred calls
ChangeCall(p) == [fn |-> "_change_handler", arg |-> p]
SettleCall == [fn |-> "_settle_checker", arg |-> 0]
RotaryCall(d) == [fn |-> "rotary_callback", arg |-> d]

QueueFull == Len(queue) >= QueueDepth

\* micropython.schedule(fn, arg): appends, or raises RuntimeError when full.
schedule(call) == IF QueueFull THEN queue ELSE Append(queue, call)

\* ------------------------------------------------------- DebouncedPin
\* DebouncedPin.__init__
NewPin(th) ==
    [threshold |-> th, settle_wait |-> None, previous |-> None, value |-> None]

\* DebouncedRotary.__init__, lines 160-163.
NewRotary(invert, reverse) ==
    [state |-> 0,
     invert |-> IF invert THEN 3 ELSE 0,
     reverse |-> IF reverse THEN -1 ELSE 1]

\* ------------------------------------------------------- observations
\*   ticks     scans whose examination of the pin ended after its last edge
\*   partial   the last edge arrived while a scan was examining the pin
\*   spaced    the last edge arrived after threshold + 1 complete scans
\*   owed      the last edge read a value other than the reported one
\*   cbSince   callbacks since the last edge
\*   lastCb    the value passed to the last callback
\*   cbAt      the tick of the last callback (scenario)
\*   zeroAt    the tick of the last scan that counted down to zero (scenario)
\*   burstCb   a callback was invoked since the current burst began
\*   midBurst  an edge continued a burst in which a callback was invoked
\*   dropped   the last edge's schedule() call was rejected
\*   dropLive  ... and the timer was running at that moment
\*   marked    the scan under way found the countdown positive (line 63)
NoHist ==
    [ticks |-> 0, partial |-> FALSE, spaced |-> FALSE, owed |-> FALSE,
     cbSince |-> 0, lastCb |-> None, cbAt |-> 0, zeroAt |-> 0,
     burstCb |-> FALSE,
     midBurst |-> FALSE, dropped |-> FALSE, dropLive |-> FALSE,
     marked |-> FALSE]

Tracking == mode # "free"

TickCap(p) == pins[p].threshold + 2

\* Scans that began examining p after its last edge and have finished.
CompleteTicks(p) ==
    IF hist[p].partial /\ hist[p].ticks > 0
    THEN hist[p].ticks - 1 ELSE hist[p].ticks


\* What an edge on p, read as level v, adds to the observations of p.
EdgeHist(p, v) ==
    LET h == hist[p]
        cont == h.ticks <= pins[p].threshold
    IN  IF Tracking
        THEN [h EXCEPT !.ticks = 0,
                       !.partial = (cur = p),
                       !.spaced = CompleteTicks(p) >= pins[p].threshold + 1,
                       !.owed = (Some(v) # pins[p].previous),
                       !.cbSince = 0,
                       !.burstCb = cont /\ h.burstCb,
                       !.midBurst = h.midBurst \/ (cont /\ h.burstCb),
                       !.dropped = QueueFull,
                       !.dropLive = QueueFull /\ timer]
        ELSE h

\* What the end of the scan's examination of p adds to observations h.
VisitHist(p, h) ==
    IF Tracking /\ h.ticks < TickCap(p)
    THEN [h EXCEPT !.ticks = @ + 1] ELSE h

\* What the scan's write of countdown w adds.
StoreHist(p, w) ==
    IF Tracking /\ w = 0
    THEN [hist[p] EXCEPT !.zeroAt = clock] ELSE hist[p]

\* What the user callback (p, v) adds.
CallHist(p, v) ==
    IF Tracking
    THEN [hist[p] EXCEPT !.cbSince = IF @ < 2 THEN @ + 1 ELSE @,
                         !.lastCb = Some(v),
                         !.cbAt = clock,
                         !.burstCb = TRUE]
    ELSE hist[p]

\* The encoder and the scheduler before anything is done with them.
NoEnc ==
    [mech |-> 0, dir |-> 1, bounced |-> FALSE, turned |-> FALSE,
     stepCalls |-> 0, inputs |-> <<>>, trail |-> <<>>, calls |-> <<>>,
     lastCode |-> 0, invertArg |-> FALSE, reverseArg |-> FALSE]

NoSched == [started |-> FALSE, returned |-> FALSE, wait |-> "none", tasks |-> <<>>]

\* The environment's own state: no debouncer step changes it.
Env == <<mode, script, clock, enc, sched>>

\* ------------------------------------------------ interrupt context
\* DebouncedPin._irq_handler: the pin change interrupt handler.
DebouncedPin_irq_handler(p, v) ==
    /\ pins' = [pins EXCEPT ![p].settle_wait = Some(pins[p].threshold),
                            ![p].value = Some(v)]
    /\ queue' = schedule(ChangeCall(p))
    /\ hist' = [hist EXCEPT ![p] = EdgeHist(p, v)]
    /\ UNCHANGED <<running_jobs, timer, pc, cur, todo, acc, raised, rotary>>

\* TimerDebounce._timer_handler: the callback of the settle timer interrupt.
\* Its schedule() call is not guarded: a full queue raises out of the ISR.
TimerEscapes == QueueFull

_timer_handler ==
    /\ queue' = schedule(SettleCall)
    /\ raised' = IF TimerEscapes THEN raised \cup {"RuntimeError"} ELSE raised
    /\ UNCHANGED <<pins, running_jobs, timer, pc, cur, todo, acc, rotary, hist>>

\* ----------------------------------------------------- task context
\* Line 33: is the timer interrupt not running yet?
TimerIdle(r) == r = RUNNING_NONE

\* TimerDebounce._change_handler, one critical section.
_change_handler ==
    /\ UNCHANGED Env
    /\ pc = "idle" /\ queue # <<>> /\ Head(queue).fn = "_change_handler"
    /\ queue' = Tail(queue)
    /\ timer' = IF TimerIdle(running_jobs) THEN TRUE ELSE timer
    /\ running_jobs' = RUNNING_SOME
    /\ UNCHANGED <<pins, pc, cur, todo, acc, raised, rotary, hist>>

\* Faulty variants of the scan's tests and arithmetic, each of which one of
\* the properties below must tell from the code's own.
HasSettled_late(w) == w < 0

Changed_always(v, prev) == TRUE

Decremented_stuck(w) == w

SawNoJobs_never(r) == FALSE

\* Line 53: has the pin settled now?
HasSettled(w) == w <= 0

\* Line 55: does the settled value differ from the reported one?
Changed(v, prev) == v # prev

\* Line 61: the countdown after one scan.
Decremented(w) == w - 1

\* Line 68: did no job show up during this scan?
SawNoJobs(r) == r = RUNNING_CHECKING

\* _settle_checker, line 47.
ScanBegin ==
    /\ UNCHANGED Env
    /\ pc = "idle" /\ queue # <<>> /\ Head(queue).fn = "_settle_checker"
    /\ queue' = Tail(queue)
    /\ running_jobs' = RUNNING_CHECKING
    /\ pc' = "loop" /\ todo' = DOMAIN pins /\ cur' = 0
    /\ hist' = [p \in PinIds |-> [hist[p] EXCEPT !.marked = FALSE]]
    /\ UNCHANGED <<pins, timer, acc, raised, rotary>>

\* Lines 51-52: the next pin of the dict, and whether it is being debounced.
ScanNext ==
    /\ UNCHANGED Env
    /\ pc = "loop" /\ todo # {}
    /\ \E p \in todo :
         /\ todo' = todo \ {p}
         /\ IF pins[p].settle_wait # None
            THEN pc' = "test" /\ cur' = p /\ UNCHANGED hist
            ELSE /\ pc' = "loop" /\ cur' = 0
                 /\ hist' = [hist EXCEPT ![p] = VisitHist(p, hist[p])]
         /\ UNCHANGED <<pins, running_jobs, timer, queue, acc, raised, rotary>>

\* Line 53.
ScanTest ==
    /\ UNCHANGED Env
    /\ pc = "test"
    /\ pc' = IF HasSettled(Get(pins[cur].settle_wait)) THEN "clear" ELSE "load"
    /\ UNCHANGED <<pins, running_jobs, timer, queue, cur, todo, acc, raised,
                   rotary, hist>>

\* Line 54.
ScanClear ==
    /\ UNCHANGED Env
    /\ pc = "clear"
    /\ pins' = [pins EXCEPT ![cur].settle_wait = None]
    /\ pc' = "compare"
    /\ UNCHANGED <<running_jobs, timer, queue, cur, todo, acc, raised, rotary,
                   hist>>

\* Line 55.
ScanCompare ==
    /\ UNCHANGED Env
    /\ pc = "compare"
    /\ IF Changed(pins[cur].value, pins[cur].previous)
       THEN pc' = "report" /\ cur' = cur /\ UNCHANGED hist
       ELSE /\ pc' = "loop" /\ cur' = 0
            /\ hist' = [hist EXCEPT ![cur] = VisitHist(cur, hist[cur])]
    /\ UNCHANGED <<pins, running_jobs, timer, queue, todo, acc, raised, rotary>>

\* Line 56.
ScanReport ==
    /\ UNCHANGED Env
    /\ pc = "report"
    /\ pins' = [pins EXCEPT ![cur].previous = pins[cur].value]
    /\ pc' = "call"
    /\ UNCHANGED <<running_jobs, timer, queue, cur, todo, acc, raised, rotary,
                   hist>>

\* Line 57: pin._callback(pin_id, pin._value).
ScanCallback ==
    /\ UNCHANGED Env
    /\ pc = "call"
    /\ hist' = [hist EXCEPT ![cur] =
                    VisitHist(cur, CallHist(cur, Get(pins[cur].value)))]
    /\ pc' = "loop" /\ cur' = 0
    /\ UNCHANGED <<pins, running_jobs, timer, queue, todo, acc, raised, rotary>>

\* Line 61, the load of "pin._settle_wait -= 1".
ScanLoad ==
    /\ UNCHANGED Env
    /\ pc = "load"
    /\ acc' = Get(pins[cur].settle_wait)
    /\ pc' = "store"
    /\ UNCHANGED <<pins, running_jobs, timer, queue, cur, todo, raised, rotary,
                   hist>>

\* Line 61, the store.
ScanStore ==
    /\ UNCHANGED Env
    /\ pc = "store"
    /\ pins' = [pins EXCEPT ![cur].settle_wait = Some(Decremented(acc))]
    /\ acc' = 0
    /\ pc' = "mark"
    /\ hist' = [hist EXCEPT ![cur] = StoreHist(cur, Decremented(acc))]
    /\ UNCHANGED <<running_jobs, timer, queue, cur, todo, raised, rotary>>

\* Line 63.
ScanMark ==
    /\ UNCHANGED Env
    /\ pc = "mark"
    /\ running_jobs' = RUNNING_SOME
    /\ pc' = "loop" /\ cur' = 0
    /\ hist' = [hist EXCEPT ![cur] =
                    VisitHist(cur, [hist[cur] EXCEPT !.marked = Tracking])]
    /\ UNCHANGED <<pins, timer, queue, todo, acc, raised, rotary>>

\* Lines 66-74, one critical section.
ScanFinish ==
    /\ UNCHANGED Env
    /\ pc = "loop" /\ todo = {}
    /\ IF SawNoJobs(running_jobs)
       THEN running_jobs' = RUNNING_NONE /\ timer' = FALSE
       ELSE UNCHANGED <<running_jobs, timer>>
    /\ pc' = "idle"
    /\ UNCHANGED <<pins, queue, cur, todo, acc, raised, rotary, hist>>

\* A faulty variant of the duplicate test.
IsPresent_never(p) == FALSE

\* Line 88: is the pin id taken?
IsPresent(p) == p \in DOMAIN pins

\* TimerDebounce.add_pin, called by the application between deferred calls.
add_pin(p, th) ==
    /\ pc = "idle"
    /\ IF IsPresent(p)
       THEN /\ raised' = raised \cup {"IndexError"}
            /\ UNCHANGED <<pins, hist>>
       ELSE /\ pins' = (p :> NewPin(th)) @@ pins
            /\ hist' = [hist EXCEPT ![p].ticks =
                            IF Tracking THEN th + 2 ELSE @]
            /\ UNCHANGED raised
    /\ UNCHANGED <<running_jobs, timer, queue, cur, todo, acc, rotary>>
    /\ UNCHANGED pc

\* ---------------------------------------------------- the environment

\* An edge on a registered pin, at any time, read as either level.
Edge ==
    /\ \E p \in DOMAIN pins, v \in Levels : DebouncedPin_irq_handler(p, v)
    /\ UNCHANGED Env

\* The periodic timer fires, at any time while it is initialised.
Tick ==
    /\ timer
    /\ _timer_handler
    /\ UNCHANGED Env

AddPin ==
    /\ \E p \in PinIds, th \in Thresholds :
         /\ mode = "pin" => p = 1
         /\ add_pin(p, th)
    /\ UNCHANGED Env

Scan ==
    \/ ScanBegin \/ ScanNext \/ ScanTest \/ ScanClear \/ ScanCompare
    \/ ScanReport \/ ScanCallback \/ ScanLoad \/ ScanStore \/ ScanMark
    \/ ScanFinish

InitProgram ==
    /\ pins = <<>>
    /\ running_jobs = RUNNING_NONE
    /\ timer = FALSE
    /\ queue = <<>>
    /\ pc = "idle" /\ cur = 0 /\ todo = {} /\ acc = 0
    /\ raised = {}
    /\ rotary = NewRotary(FALSE, FALSE)
    /\ hist = [p \in PinIds |-> NoHist]

\* Any number of pins, any interleaving; observations off.
Init ==
    /\ InitProgram
    /\ mode = "free" /\ script = <<>> /\ clock = 0
    /\ enc = NoEnc /\ sched = NoSched

Next == AddPin \/ Edge \/ Tick \/ _change_handler \/ Scan

Spec == Init /\ [][Next]_vars

\* One registered pin, any interleaving; observations on.
InitPin ==
    /\ InitProgram
    /\ mode = "pin" /\ script = <<>> /\ clock = 0
    /\ enc = NoEnc /\ sched = NoSched

NextPin == AddPin \/ Edge \/ Tick \/ _change_handler \/ Scan

SpecPin == InitPin /\ [][NextPin]_vars

\* --------------------------------------------------------- scenario A
\* Edges (tick, level) = (0,1), (5,0), (10,1) on one pin with the default
\* threshold, one scan per tick.  The timer is started by the deferred call
\* of the edge at tick 0, so its k-th interrupt comes k periods after that
\* call and the scan of tick k later still: an edge at tick t falls after the
\* scan of tick t-1 and before the scan of tick t, on either side of the
\* timer interrupt of tick t.
ScenarioA == <<<<0, 1>>, <<5, 0>>, <<10, 1>>>>

InitA ==
    /\ InitProgram
    /\ mode = "scenario" /\ script = ScenarioA /\ clock = 0
    /\ enc = NoEnc /\ sched = NoSched

Quiet == pc = "idle" /\ queue = <<>>

SetupA ==
    /\ pins = <<>>
    /\ add_pin(1, DefaultThreshold)
    /\ UNCHANGED Env

\* The next scripted edge is the edge of tick t.
Due(t) == IF script = <<>> THEN FALSE ELSE Head(script)[1] = t

\* No scripted edge of tick t or earlier is still to come.
Past(t) == IF script = <<>> THEN TRUE ELSE Head(script)[1] > t

EdgeA ==
    /\ 1 \in DOMAIN pins /\ pc = "idle"
    /\ \/ Due(clock + 1) /\ queue = <<>>
       \/ Due(clock) /\ (clock = 0 \/ queue = <<SettleCall>>)
    /\ DebouncedPin_irq_handler(1, Head(script)[2])
    /\ script' = Tail(script)
    /\ UNCHANGED <<mode, clock, enc, sched>>

TickA ==
    /\ timer /\ Quiet /\ Past(clock)
    /\ _timer_handler
    /\ clock' = clock + 1
    /\ UNCHANGED <<mode, script, enc, sched>>

ScanBeginA == Past(clock) /\ ScanBegin

ScanSteps ==
    \/ ScanNext \/ ScanTest \/ ScanClear \/ ScanCompare \/ ScanReport
    \/ ScanCallback \/ ScanLoad \/ ScanStore \/ ScanMark \/ ScanFinish

NextA == SetupA \/ EdgeA \/ TickA \/ _change_handler \/ ScanBeginA \/ ScanSteps

SpecA == InitA /\ [][NextA]_vars

\* ---------------------------------------------------- DebouncedRotary
\* Lines 133-134; the code c is entry c + 1.
VALID_TRANSITIONS ==
    <<FALSE, TRUE, TRUE, FALSE, TRUE, FALSE, FALSE, TRUE,
      TRUE, FALSE, FALSE, TRUE, FALSE, TRUE, TRUE, FALSE>>

Codes == 0..15

\* a ^ b on two-bit values.
Xor2(a, b) ==
    ((((a \div 2) + (b \div 2)) % 2) * 2) + (((a % 2) + (b % 2)) % 2)

\* Line 172: (dat << 1) | clk.
PinPair(dat, clk) == dat * 2 + clk

\* Faulty variants of the handler's arithmetic, commit and dispatch.
NewState_unshifted(st, pair, inv) == (st + Xor2(pair, inv)) % 16

IsValid_always(code) == TRUE

Commit_clear(st, code) == IF VALID_TRANSITIONS[code + 1] THEN code ELSE 0

Signal_unreversed(code, rev) ==
    IF code = 7 THEN Some(1) ELSE IF code = 11 THEN Some(-1) ELSE None

\* Lines 169-174: ((state << 2) | (pair ^ invert)) & 0x0f.
NewState(st, pair, inv) == ((st * 4) + Xor2(pair, inv)) % 16

\* Line 175.
IsValid(code) == VALID_TRANSITIONS[code + 1]

\* Lines 175-176: the state after an edge that computed `code`.
Commit(st, code) == IF IsValid(code) THEN code ELSE st

\* Lines 178-181: the direction to report for a committed code, if any.
Signal(code, rev) ==
    IF code = 7 THEN Some(rev)
    ELSE IF code = 11 THEN Some(-1 * rev) ELSE None

\* DebouncedRotary._irq_handler with the pins read as dat and clk.  The
\* RuntimeError of a full queue is caught (lines 182-184).
DebouncedRotary_irq_handler(dat, clk) ==
    LET newstate == NewState(rotary.state, PinPair(dat, clk), rotary.invert)
        sig == IF IsValid(newstate)
               THEN Signal(Commit(rotary.state, newstate), rotary.reverse)
               ELSE None
    IN  /\ rotary' = [rotary EXCEPT !.state = Commit(@, newstate)]
        /\ queue' = IF sig = None THEN queue
                    ELSE schedule(RotaryCall(Get(sig)))
        /\ UNCHANGED <<pins, running_jobs, timer, pc, cur, todo, acc, raised,
                       hist>>

\* The user's callback, run from the queue.
rotary_callback ==
    /\ pc = "idle" /\ queue # <<>> /\ Head(queue).fn = "rotary_callback"
    /\ queue' = Tail(queue)
    /\ UNCHANGED <<pins, running_jobs, timer, pc, cur, todo, acc, raised,
                   rotary, hist>>
    /\ UNCHANGED Env

\* The levels a pin pair puts on dat and clk.
Dat(pair) == pair \div 2

Clk(pair) == pair % 2

\* Did this step put a call on the queue?
Enqueued == Len(queue') > Len(queue)

\* What an edge read as (dat, clk) adds to the observations: the first
\* MaxEdges pairs read, the state after each, the arguments enqueued.
SeenEdge(dat, clk) ==
    LET rec == Len(enc.inputs) < MaxEdges
    IN  [enc EXCEPT
            !.lastCode = NewState(rotary.state, PinPair(dat, clk),
                                  rotary.invert),
            !.inputs = IF rec THEN Append(@, PinPair(dat, clk)) ELSE @,
            !.trail = IF rec THEN Append(@, rotary'.state) ELSE @,
            !.calls = IF rec /\ Enqueued
                      THEN Append(@, queue'[Len(queue')].arg) ELSE @]

InitDebounce ==
    /\ pins = <<>>
    /\ running_jobs = RUNNING_NONE
    /\ timer = FALSE
    /\ queue = <<>>
    /\ pc = "idle" /\ cur = 0 /\ todo = {} /\ acc = 0
    /\ raised = {}
    /\ hist = [p \in PinIds |-> NoHist]
    /\ script = <<>> /\ clock = 0
    /\ sched = NoSched

\* An encoder constructed with any invert and reverse; any pin levels may
\* be read by any edge interrupt.
InitRotary ==
    /\ InitDebounce
    /\ mode = "rotary"
    /\ \E i, r \in BOOLEAN :
         /\ rotary = NewRotary(i, r)
         /\ enc = [NoEnc EXCEPT !.invertArg = i, !.reverseArg = r]

RotaryEdge ==
    /\ \E dat, clk \in Levels :
         /\ DebouncedRotary_irq_handler(dat, clk)
         /\ enc' = SeenEdge(dat, clk)
    /\ UNCHANGED <<mode, script, clock, sched>>

NextRotary == RotaryEdge \/ rotary_callback

SpecRotary == InitRotary /\ [][NextRotary]_vars

\* ------------------------------------------- one detent at a time
\* The encoder's contacts: at rest both read 1 (after `invert`); a step
\* passes through the four phases of the quadrature sequence in one
\* direction, and the contact that last moved may bounce back to the phase
\* before and forth again, any number of times.
Phases(dir) == IF dir = 1 THEN <<3, 2, 0, 1>> ELSE <<3, 1, 0, 2>>

\* The pin pair the contacts show in phase m of a step in direction dir.
Shown(dir, m) == Xor2(Phases(dir)[m + 1], rotary.invert)

\* The step's count of enqueued callbacks after this edge, from base.
Counted(base) == IF Enqueued /\ base < 2 THEN base + 1 ELSE base

\* The handler run on the pair the contacts show in phase m, direction dir.
ContactEdge(dir, m) ==
    DebouncedRotary_irq_handler(Dat(Shown(dir, m)), Clk(Shown(dir, m)))

InitDetent ==
    /\ InitDebounce
    /\ mode = "detent"
    /\ \E i, r \in BOOLEAN :
         /\ rotary = NewRotary(i, r)
         /\ enc = [NoEnc EXCEPT !.invertArg = i, !.reverseArg = r]

\* The knob moves on by one phase; leaving the rest position begins a step
\* in either direction.
Advance ==
    /\ ~enc.bounced
    /\ \E d \in {1, -1} :
         LET dir2 == IF enc.mech = 0 THEN d ELSE enc.dir
             m2 == (enc.mech + 1) % 4
         IN  /\ d = dir2
             /\ ContactEdge(dir2, m2)
             /\ enc' = [enc EXCEPT
                           !.mech = m2, !.dir = dir2, !.turned = TRUE,
                           !.stepCalls =
                               Counted(IF enc.mech = 0 THEN 0 ELSE @),
                           !.lastCode = NewState(rotary.state,
                                                 Shown(dir2, m2),
                                                 rotary.invert)]
    /\ UNCHANGED <<mode, script, clock, sched>>

\* The contact that moved last opens again: the pins show the phase before.
BounceBack ==
    /\ ~enc.bounced /\ enc.turned
    /\ ContactEdge(enc.dir, (enc.mech + 3) % 4)
    /\ enc' = [enc EXCEPT
                  !.bounced = TRUE, !.stepCalls = Counted(@),
                  !.lastCode = NewState(rotary.state,
                                        Shown(enc.dir, (enc.mech + 3) % 4),
                                        rotary.invert)]
    /\ UNCHANGED <<mode, script, clock, sched>>

\* ... and closes again.
BounceForth ==
    /\ enc.bounced
    /\ ContactEdge(enc.dir, enc.mech)
    /\ enc' = [enc EXCEPT
                  !.bounced = FALSE, !.stepCalls = Counted(@),
                  !.lastCode = NewState(rotary.state,
                                        Shown(enc.dir, enc.mech),
                                        rotary.invert)]
    /\ UNCHANGED <<mode, script, clock, sched>>

NextDetent == Advance \/ BounceBack \/ BounceForth \/ rotary_callback

SpecDetent == InitDetent /\ [][NextDetent]_vars

\* ---------------------------------------------------------- Scheduler
\* scheduler.py.  sched.tasks is Scheduler._tasks: each task is the number
\* of awaits its coroutine still has to get through, or how it ended;
\* sched.wait is the position of the coroutine _wait_loop that run_forever
\* hands to uasyncio.run, which returns when that coroutine does.
Debounce ==
    <<pins, running_jobs, timer, queue, pc, cur, todo, acc, raised, rotary,
      hist>>

\* A faulty variant of the loop condition.
LoopAgain_once == FALSE

\* Line 37: while True.
LoopAgain == TRUE

InitSched ==
    /\ InitDebounce
    /\ rotary = NewRotary(FALSE, FALSE) /\ enc = NoEnc
    /\ mode = "sched"

\* Scheduler.create_task with a coroutine of n awaits, before or after
\* run_forever.
create_task(n) ==
    /\ Len(sched.tasks) < MaxTasks
    /\ ~sched.returned
    /\ sched' = [sched EXCEPT !.tasks = Append(@, [left |-> n, end |-> "no"])]

CreateTask ==
    /\ \E n \in 0..MaxSteps : create_task(n)
    /\ UNCHANGED <<mode, script, clock, enc>>
    /\ UNCHANGED Debounce

\* Scheduler.run_forever: run(_wait_loop(10_000)); the coroutine enters
\* its loop and sleeps.
run_forever ==
    /\ ~sched.started
    /\ sched' = [sched EXCEPT !.started = TRUE,
                              !.wait = IF LoopAgain THEN "sleeping" ELSE "done",
                              !.returned = ~LoopAgain]
    /\ UNCHANGED <<mode, script, clock, enc>>
    /\ UNCHANGED Debounce

\* The event loop resumes task i: it gets through one await, returns, or
\* raises.
TaskRuns ==
    /\ sched.started /\ ~sched.returned
    /\ \E i \in 1..Len(sched.tasks) :
         /\ sched.tasks[i].end = "no"
         /\ \/ /\ sched.tasks[i].left > 0
               /\ sched' = [sched EXCEPT !.tasks[i].left = @ - 1]
            \/ /\ sched.tasks[i].left = 0
               /\ sched' = [sched EXCEPT !.tasks[i].end = "returned"]
            \/ sched' = [sched EXCEPT !.tasks[i].left = 0,
                                      !.tasks[i].end = "raised"]
    /\ UNCHANGED <<mode, script, clock, enc>>
    /\ UNCHANGED Debounce

\* Line 38: the sleep of _wait_loop is over.
WaitLoopWakes ==
    /\ sched.started /\ sched.wait = "sleeping"
    /\ sched' = [sched EXCEPT !.wait = "awake"]
    /\ UNCHANGED <<mode, script, clock, enc>>
    /\ UNCHANGED Debounce

\* Line 37: _wait_loop tests its condition and sleeps again, or ends, and
\* with it run and run_forever.
WaitLoopTests ==
    /\ sched.started /\ sched.wait = "awake"
    /\ sched' = [sched EXCEPT !.wait = IF LoopAgain THEN "sleeping" ELSE "done",
                              !.returned = ~LoopAgain]
    /\ UNCHANGED <<mode, script, clock, enc>>
    /\ UNCHANGED Debounce

NextSched ==
    CreateTask \/ run_forever \/ TaskRuns \/ WaitLoopWakes \/ WaitLoopTests

SpecSched == InitSched /\ [][NextSched]_vars

\* ------------------------------------------------------------ properties
Registered == DOMAIN pins

Pending(p) == pins[p].settle_wait # None

NoPending == \A p \in Registered : ~Pending(p)

Queued(call) == \E i \in 1..Len(queue) : queue[i] = call

\* C1: in every reachable state the periodic timer is running if and only
\* if the liveness flag _running_jobs is not RUNNING_NONE.
C1_TimerIffNotIdle == timer <=> running_jobs # RUNNING_NONE

\* C2: within a burst (every edge arrives when at most `threshold` scans
\* have examined the pin since the edge before) no callback is invoked
\* before the burst's last edge, and a callback never carries the value of
\* the callback before it.
C2_BurstCoalesced ==
    \A p \in Registered :
        /\ ~hist[p].midBurst
        /\ (pc = "call" /\ cur = p) => pins[p].value # hist[p].lastCb

\* Scenario A (threshold 20, edges (0,1), (5,0), (10,1), one scan per tick):
\* what holds of the callbacks whichever scan delivers them.
OneCallbackA ==
    LET h == hist[1]
    IN  /\ script # <<>> => ~h.burstCb
        /\ ~h.midBurst
        /\ h.cbSince <= 1
        /\ h.cbSince = 1 => h.lastCb = Some(1)
        /\ clock >= 31 => h.cbSince = 1
        /\ (script = <<>> /\ Quiet /\ ~timer) => h.cbSince = 1

\* C3 as stated: in scenario A exactly one callback, (pin, 1), is invoked,
\* at tick 30, and the scan that invokes it is the scan in which the
\* countdown reaches zero.
C3_ScenarioA ==
    /\ OneCallbackA
    /\ hist[1].cbSince = 1 => (hist[1].cbAt = 30 /\ hist[1].zeroAt = 30)

\* C3 as amended: in scenario A exactly one callback, (pin, 1), is invoked,
\* at tick 30, by the scan after the one in which the countdown reaches
\* zero: the twenty-first scan to examine the pin after the last edge.
C3_ScenarioA_NextScan ==
    /\ OneCallbackA
    /\ hist[1].cbSince = 1 => (hist[1].cbAt = 30 /\ hist[1].zeroAt = 29)
    /\ (pc = "call" /\ cur = 1) => hist[1].ticks = DefaultThreshold

C3_Delivered ==
    /\ script = <<>> /\ Quiet /\ ~timer
    /\ hist[1].cbSince = 1 /\ hist[1].lastCb = Some(1) /\ hist[1].cbAt = 30

\* C4 as stated: once `threshold` complete scans have followed an edge that
\* changed the value (itself well clear of the edge before it), the edge has
\* had its one callback, carrying its value.
C4_SpacedByThreshold ==
    \A p \in Registered :
        (hist[p].spaced /\ hist[p].owed
            /\ CompleteTicks(p) >= pins[p].threshold)
        => (hist[p].cbSince = 1 /\ hist[p].lastCb = pins[p].value)

\* C4 as amended: with at least threshold + 1 complete scans between
\* consecutive edges, every edge that changed the value has had exactly
\* one callback, carrying its value, once those scans are over, and an edge
\* that did not change it has had none.
C4_SpacedByThresholdPlusOne ==
    \A p \in Registered :
        (hist[p].spaced /\ CompleteTicks(p) >= pins[p].threshold + 1)
        => /\ ~Pending(p)
           /\ pins[p].previous = pins[p].value
           /\ hist[p].cbSince = (IF hist[p].owed THEN 1 ELSE 0)
           /\ hist[p].owed => hist[p].lastCb = pins[p].value

C4_Settled ==
    \E p \in Registered :
        /\ hist[p].spaced /\ hist[p].owed
        /\ CompleteTicks(p) >= pins[p].threshold + 1
        /\ pins[p].threshold = MaxThreshold
        /\ hist[p].cbSince = 1 /\ hist[p].lastCb = pins[p].value

\* C5: when a countdown has expired and the scan finds the raw value equal
\* to the last reported value, it goes on to the next pin with the countdown
\* cleared, no callback invoked and the reported value unchanged.
C5_NoOpOnRepeat ==
    /\ [](pc = "compare" =>
            (Pending(cur) => hist[cur].partial /\ hist[cur].ticks = 0))
    /\ [][(pc = "compare" /\ pc' # pc
            /\ pins[cur].value = pins[cur].previous)
          => /\ pc' = "loop" /\ pins' = pins
             /\ hist'[cur].cbSince = hist[cur].cbSince
             /\ hist'[cur].lastCb = hist[cur].lastCb]_vars

C5_Repeat ==
    /\ pc = "compare"
    /\ pins[cur].value = pins[cur].previous
    /\ pins[cur].previous # None
    /\ ~Pending(cur)

\* C6: a registered watcher has a pending countdown only while the timer is
\* running, in every state where no deferred call is queued and no scan is
\* under way (the states in which the claim asks least).
C6_PendingOnlyWhileTimerRuns ==
    Quiet => ((\E p \in Registered : Pending(p)) => timer)

\* C7: an edge whose deferred call was accepted is never left with a
\* pending countdown and a stopped timer once every deferred call has run.
C7_EdgeNeverStranded ==
    \A p \in Registered :
        (Quiet /\ Pending(p) /\ ~hist[p].dropped) => timer

\* C8: a scan that ends with no watcher left pending (it cleared the last
\* pending countdown) sets the flag to RUNNING_NONE and stops the timer.
C8_StopsWithLastSettle ==
    [][(pc = "loop" /\ todo = {} /\ pc' = "idle" /\ NoPending)
       => (running_jobs' = RUNNING_NONE /\ ~timer')]_vars

C8_Stopped ==
    /\ pc = "idle" /\ NoPending
    /\ running_jobs = RUNNING_NONE /\ ~timer
    /\ \A p \in PinIds : p \in Registered /\ pins[p].previous # None

\* C9: add_pin with a registered pin id raises IndexError and changes
\* nothing else.
C9_DuplicateRejected ==
    [][\A p \in Registered, th \in Thresholds :
          add_pin(p, th)
          => /\ "IndexError" \in raised'
             /\ UNCHANGED <<pins, running_jobs, timer, queue, pc, cur, todo,
                            acc, rotary, hist>>]_vars

C9_Rejected ==
    /\ "IndexError" \in raised
    /\ \E p \in Registered : Pending(p) /\ pins[p].previous # None

\* C10: no enqueue attempted from interrupt context lets an error escape
\* the interrupt handler, and the handler's other updates are those of a
\* successful enqueue.
C10_DropsAreSilent == "RuntimeError" \notin raised

\* --------------------------------------------- properties of the decoder
\* A step taken by an edge interrupt of the encoder (the queue never
\* shrinks in one), and whether it committed the code it computed.
RotaryStep == Len(queue') >= Len(queue)

CommittedCode(c) == VALID_TRANSITIONS[enc'.lastCode + 1] /\ enc'.lastCode = c
                    /\ rotary'.state = c

Invalid == {c \in Codes : ~VALID_TRANSITIONS[c + 1]}

\* C11: an edge that commits 0x07 makes one schedule() call, with +1, or -1
\* if reverse; an edge that commits 0x0B one with the opposite sign; any
\* other edge leaves the queue alone.  (schedule() appends unless the queue
\* is full.)
C11_SignalsOnFullStepOnly ==
    [][RotaryStep =>
        queue' = IF CommittedCode(7)
                 THEN schedule(RotaryCall(IF enc.reverseArg THEN -1 ELSE 1))
                 ELSE IF CommittedCode(11)
                 THEN schedule(RotaryCall(IF enc.reverseArg THEN 1 ELSE -1))
                 ELSE queue]_vars

C11_Signalled ==
    /\ enc.reverseArg /\ enc.lastCode = 7 /\ rotary.state = 7
    /\ queue # <<>> /\ queue[Len(queue)] = RotaryCall(-1)

\* An edge whose code the table flags invalid leaves `state` as it was.
InvalidKeepsState ==
    (RotaryStep /\ enc'.lastCode \in Invalid) => rotary'.state = rotary.state

\* C12 as stated: exactly 9 of the 16 codes are flagged invalid, and an edge
\* producing one of them never changes `state`.
C12_NineInvalid ==
    /\ Cardinality(Invalid) = 9
    /\ [][InvalidKeepsState]_vars

\* C12 as amended: exactly 8 of the 16 codes are flagged invalid (0x0, 0x3,
\* 0x5, 0x6, 0x9, 0xA, 0xC, 0xF), and an edge producing one of them never
\* changes `state`.
C12_EightInvalid ==
    /\ Invalid = {0, 3, 5, 6, 9, 10, 12, 15}
    /\ [][InvalidKeepsState]_vars

C12_Rejected ==
    /\ enc.inputs # <<>> /\ enc.lastCode \in Invalid
    /\ rotary.state \in {1, 2, 4, 8}

\* Scenario B's codes, and the pin pairs that present them (a code's low
\* two bits are the pair read).
ScenarioB == <<1, 3, 2, 7>>

ScenarioBPairs == [i \in 1..Len(ScenarioB) |-> ScenarioB[i] % 4]

DrivenB == enc.inputs = ScenarioBPairs /\ ~enc.invertArg /\ ~enc.reverseArg

\* C13 as stated: from 0x00 with reverse=false the decoder goes through the
\* committed states 0x01, 0x03, 0x02, 0x07, all flagged valid, and enqueues
\* exactly one callback, +1, on the step that lands on 0x07.
C13_ScenarioB ==
    /\ \A i \in 1..Len(ScenarioB) : VALID_TRANSITIONS[ScenarioB[i] + 1]
    /\ DrivenB => (enc.trail = ScenarioB /\ enc.calls = <<1>>)

\* C13 as amended: 0x03 is flagged invalid and is never the state.  Driven
\* from 0x00 with reverse=false by the pairs 01, 11, 10, 11 the decoder
\* commits 0x01, 0x07, 0x0E, 0x0B and enqueues +1 on the step that lands on
\* 0x07 and -1 on the step that lands on 0x0B; driven by the pairs of one
\* clockwise step, 10, 00, 01, 11, it commits 0x02, 0x08, 0x01, 0x07 and
\* enqueues exactly one callback, +1, on the step that lands on 0x07.
C13_ScenarioB_AsDecoded ==
    /\ rotary.state # 3
    /\ DrivenB => (enc.trail = <<1, 7, 14, 11>> /\ enc.calls = <<1, -1>>)
    /\ (enc.inputs = <<2, 0, 1, 3>> /\ ~enc.invertArg /\ ~enc.reverseArg)
       => (enc.trail = <<2, 8, 1, 7>> /\ enc.calls = <<1>>)
    /\ \A i \in 1..Len(enc.trail) :
           enc.trail[i] = 0 \/ VALID_TRANSITIONS[enc.trail[i] + 1]

C13_Driven ==
    /\ DrivenB /\ rotary.state = 11
    /\ enc.trail = <<1, 7, 14, 11>> /\ enc.calls = <<1, -1>>

\* C14: within one physical step (from leaving the rest position until the
\* rest position is left again), whatever the bounce, at most one callback
\* is enqueued.
C14_OncePerStep == enc.stepCalls <= 1

\* C19: an edge whose code is flagged invalid leaves `state` and the queue
\* as they were, and a valid code becomes the state; the code's upper two
\* bits are the lower two bits of the state it was computed from; `state`
\* is always 0x00 or a code flagged valid.
C19_InvalidChangesNothing ==
    /\ [](rotary.state = 0 \/ VALID_TRANSITIONS[rotary.state + 1])
    /\ [][RotaryStep =>
            /\ enc'.lastCode \div 4 = rotary.state % 4
            /\ IF enc'.lastCode \in Invalid
               THEN rotary' = rotary /\ queue' = queue
               ELSE rotary'.state = enc'.lastCode]_vars

C19_Ignored ==
    /\ enc.inputs # <<>> /\ enc.lastCode \in Invalid
    /\ rotary.state = 7 /\ queue = <<>>

\* ------------------------------------------- properties of the scheduler
Live(t) == t.end = "no"

\* C15: once run_forever has been called it has not returned, and its
\* keep-alive coroutine is sleeping or about to sleep again, whatever
\* became of the tasks created with create_task.
C15_NeverReturns ==
    sched.started =>
        (~sched.returned /\ sched.wait \in {"sleeping", "awake"})

C15_OnlyKeepAliveLeft ==
    /\ sched.started /\ ~sched.returned /\ sched.wait = "sleeping"
    /\ Len(sched.tasks) = MaxTasks
    /\ \A i \in 1..MaxTasks : ~Live(sched.tasks[i])
    /\ \E i \in 1..MaxTasks : sched.tasks[i].end = "raised"

\* --------------------------------- further properties of the debouncer
\* The step that is the scan's final critical section.
FinalSection == pc = "loop" /\ todo = {} /\ pc' = "idle"

FoundPositive == \E p \in Registered : hist[p].marked

\* C16: the final critical section leaves the flag Idle and the timer
\* stopped if the scan found no positive countdown (no _change_handler runs
\* inside a scan), and otherwise leaves the flag Active and the timer
\* running.
C16_FinalSection ==
    [][FinalSection =>
        IF FoundPositive
        THEN running_jobs' = RUNNING_SOME /\ timer'
        ELSE running_jobs' = RUNNING_NONE /\ ~timer']_vars

\* C17: an edge whose deferred call was rejected while the timer was
\* running is not left, once every deferred call has run, with its
\* countdown pending and the timer stopped.
C17_DropRecoveredByTimer ==
    \A p \in Registered :
        (Quiet /\ hist[p].dropLive /\ Pending(p)) => timer

\* C18: an edge that lands after the scan's test of the countdown (line 53)
\* and before the end of that examination leaves the countdown at the full
\* threshold once the scan has cleared it (line 54).
C18_EdgeInsideScanKeepsCountdown ==
    \A p \in Registered :
        (cur = p /\ pc = "compare" /\ hist[p].partial /\ hist[p].ticks = 0)
        => pins[p].settle_wait = Some(pins[p].threshold)

\* C20: outside the two instructions that update the reported value and
\* invoke the callback, the reported value is the value passed to the last
\* callback; and a callback never carries the value of the one before it.
C20_ReportedIsLastCallback ==
    \A p \in Registered :
        /\ ~(pc = "call" /\ cur = p) => pins[p].previous = hist[p].lastCb
        /\ (pc = "call" /\ cur = p) => pins[p].value # hist[p].lastCb

=============================================================================
